---- MODULE Spec2Model ----
(***************************************************************************)
(* goclockdiff: one ICMP Timestamp / Timestamp Reply exchange (doPing),    *)
(* the wire codec of the 16-byte Timestamp body (Timestamp.Marshal,        *)
(* ParseTimestamp) and the RTT / clock-delta arithmetic.                   *)
(***************************************************************************)
EXTENDS Integers, Sequences, FiniteSets, TLC

\* ------------------------------------------------------------------ numbers

marshalledTimestampLen == 16

TwoTo8 == 256

TwoTo16 == 65536

MsPerDay == 86400000

\* A faulty variant of ReadTimeoutMs: thirty seconds.
ReadTimeout30s == 30 * 1000

\* 3 * time.Second, in milliseconds
ReadTimeoutMs == 3000

ICMPTypeTimestamp == 13

ICMPTypeTimestampReply == 14

ICMPTypeEchoReply == 0

ICMPTypeDestinationUnreachable == 3

icmpHeaderLen == 4

\* Length bound of the raw byte strings handed to ParseTimestamp.
MaxBodyLen == 18

\* Length bound of the address list the resolver returns.
MaxIPs == 2

\* ------------------------------------------------------- fixed-width helpers
\* A Go int (ID, Seq, a byte, a length) is an integer of the model. A uint32 or
\* int64 quantity is a pair <<hi, lo>> standing for hi * 2^16 + lo, with lo in
\* 0 .. 2^16 - 1: a uint32 has hi in 0 .. 2^16 - 1, a negative int64 has hi < 0.

RECURSIVE Pow2(_)
Pow2(n) == IF n = 0 THEN 1 ELSE 2 * Pow2(n - 1)

\* x >> n on a Go int: an arithmetic shift, the floor of x / 2^n.
Shr(x, n) == x \div Pow2(n)

\* byte(x): the low eight bits of x.
Byte(x) == x % TwoTo8

\* a | b on non-negative integers, bit by bit.
RECURSIVE BitOr(_, _)
BitOr(a, b) ==
    IF a = 0 THEN b
    ELSE IF b = 0 THEN a
    ELSE (IF (a % 2 = 1) \/ (b % 2 = 1) THEN 1 ELSE 0) + 2 * BitOr(a \div 2, b \div 2)

\* The pair of hi and lo, carries and borrows of lo moved into hi.
Wide(hi, lo) == <<hi + (lo \div TwoTo16), lo % TwoTo16>>

\* int64(n) of an integer of the model.
WideOf(n) == Wide(0, n)

WAdd(a, b) == Wide(a[1] + b[1], a[2] + b[2])

WSub(a, b) == Wide(a[1] - b[1], a[2] - b[2])

WNeg(a) == Wide(-a[1], -a[2])

WIsNeg(a) == a[1] < 0

WLeq(a, b) == ~WIsNeg(WSub(b, a))

\* uint32(x) of an int64: the low 32 bits.
Uint32(a) == <<a[1] % TwoTo16, a[2]>>

\* math.Abs(float64(x)) carried back to int64. A float64 holds every integer of
\* magnitude up to 2^53 exactly and the pairs here stay below 2^47, so the two
\* conversions lose nothing and what is left is the absolute value.
AbsViaFloat64(a) == IF WIsNeg(a) THEN WNeg(a) ELSE a

\* x / 2 on a non-negative int64.
WHalfNonNeg(a) == Wide(a[1] \div 2, (a[1] % 2) * (TwoTo16 \div 2) + (a[2] \div 2))

\* x / 2 on an int64: Go's quotient, truncated toward zero.
WQuo2(a) == IF WIsNeg(a) THEN WNeg(WHalfNonNeg(WNeg(a))) ELSE WHalfNonNeg(a)

\* --------------------------------------------------------------- error values

\* The ICMP message that is not there.
NoMsg == [Type |-> -1, Code |-> 0, Checksum |-> 0, Body |-> <<>>]

Nil == [kind |-> "nil", n |-> 0, msg |-> NoMsg, peer |-> ""]

\* An error with its text's kind and the number it prints, if any.
Err(k, n) == [kind |-> k, n |-> n, msg |-> NoMsg, peer |-> ""]

\* A faulty variant of ErrWantEchoReply: the sender is left out of the error.
ErrWantEchoReplyNoPeer(m, p) == [kind |-> "want echo reply", n |-> 0, msg |-> m, peer |-> ""]

\* fmt.Errorf("got %+v from %v; want echo reply", rm, peer)
ErrWantEchoReply(m, p) == [kind |-> "want echo reply", n |-> 0, msg |-> m, peer |-> p]

\* ------------------------------------------------------------------ Timestamp

\* The nil *Timestamp.
NilTs == [isNil |-> TRUE, ID |-> 0, Seq |-> 0, OriginTimestamp |-> <<0, 0>>,
          ReceiveTimestamp |-> <<0, 0>>, TransmitTimestamp |-> <<0, 0>>]

Timestamp(id, seq, o, r, t) ==
    [isNil |-> FALSE, ID |-> id, Seq |-> seq, OriginTimestamp |-> o,
     ReceiveTimestamp |-> r, TransmitTimestamp |-> t]

\* A faulty variant of unparseInt: the four bytes in little-endian order.
unparseIntLittleEndian(i) == <<Byte(i[2]), Byte(Shr(i[2], 8)), Byte(i[1]), Byte(Shr(i[1], 8))>>

\* unparseInt(i) of Marshal: i >> 24 and i >> 16 are the two bytes of the high
\* half of the uint32, i >> 8 and i those of the low half.
unparseInt(i) == <<Byte(Shr(i[1], 8)), Byte(i[1]), Byte(Shr(i[2], 8)), Byte(i[2])>>

\* A faulty variant of Marshal: the identifier and sequence bytes in little-endian order.
MarshalLittleEndianID(t) ==
    [b |-> <<Byte(t.ID), Byte(Shr(t.ID, 8)), Byte(t.Seq), Byte(Shr(t.Seq, 8))>>
            \o unparseInt(t.OriginTimestamp)
            \o unparseInt(t.ReceiveTimestamp)
            \o unparseInt(t.TransmitTimestamp),
     err |-> Nil]

\* (t *Timestamp) Marshal: the pair (bytes, error) it returns.
Marshal(t) ==
    [b |-> <<Byte(Shr(t.ID, 8)), Byte(t.ID), Byte(Shr(t.Seq, 8)), Byte(t.Seq)>>
            \o unparseInt(t.OriginTimestamp)
            \o unparseInt(t.ReceiveTimestamp)
            \o unparseInt(t.TransmitTimestamp),
     err |-> Nil]

\* parseInt(start) of ParseTimestamp; start is the Go (0-based) offset. The
\* bytes shifted by 24 and 16 make the high half, those shifted by 8 and 0 the
\* low half; a uint32 shift drops what leaves the 32 bits.
parseInt(b, start) ==
    <<BitOr((b[start + 1] * TwoTo8) % TwoTo16, b[start + 2] % TwoTo16),
      BitOr((b[start + 3] * TwoTo8) % TwoTo16, b[start + 4] % TwoTo16)>>

\* The decoding of ParseTimestamp once the length check has passed.
parseFields(b) ==
    Timestamp(BitOr(b[1] * TwoTo8, b[2]), BitOr(b[3] * TwoTo8, b[4]),
              parseInt(b, 4), parseInt(b, 8), parseInt(b, 12))

\* A faulty variant of ParseTimestamp: the length check rejects short input only.
ParseTimestampShortOnly(b) ==
    IF Len(b) < marshalledTimestampLen
    THEN [ts |-> NilTs, err |-> Err("timestamp body length", Len(b))]
    ELSE [ts |-> parseFields(b), err |-> Nil]

\* ParseTimestamp: the pair (*Timestamp, error) it returns.
ParseTimestamp(b) ==
    IF Len(b) # marshalledTimestampLen
    THEN [ts |-> NilTs, err |-> Err("timestamp body length", Len(b))]
    ELSE [ts |-> parseFields(b), err |-> Nil]

\* ---------------------------------------------------------------------- state

VARIABLES
    \* the codec exercised on its own
    cpc,          \* "msg", "bytes", "marshalled", "parsed", "parseFailed", "idle"
    cin,          \* the input the codec run started from
    cmsg,         \* the *Timestamp at hand
    cbuf,         \* the bytes at hand
    cerr,         \* the error of the last codec call
    \* doPing
    pc,           \* the statement doPing is at
    pid,          \* os.Getpid()
    sock,         \* c: "none", "open", "closed"
    deferred,     \* defer c.Close() is registered
    ips,          \* what net.LookupIP returned
    dst,          \* the destination address
    wall,         \* the wall clock, [day, ms]
    mono,         \* milliseconds elapsed since doPing was entered
    today,        \* the day of the midnight reference
    transmitTime, \* uint32, an integer below MsPerDay
    wb,           \* the encoded request
    deadline,     \* the read deadline, on mono; -1 when unset
    rb,           \* rb[:n], the datagram read
    peer,         \* its sender
    receivedTime, \* int64, a pair
    rm,           \* the parsed ICMP message
    ts,           \* the decoded reply
    perr,         \* the error ParseTimestamp returned in doPing
    out,          \* what was printed
    ret,          \* the error doPing returned
    calls,        \* the calls made on the collaborators, in order
    resolverErr,  \* the error net.LookupIP returned in getAddr
    nargs,        \* len(flag.Args())
    rawOK,        \* what nettest.SupportsRawIPSocket reported
    stderr        \* what the process wrote on standard error, in order

codecVars == <<cpc, cin, cmsg, cbuf, cerr>>

pingVars == <<pc, pid, sock, deferred, ips, dst, wall, mono, today, transmitTime, wb,
              deadline, rb, peer, receivedTime, rm, ts, perr, out, ret, calls, resolverErr>>

mainVars == <<nargs, rawOK, stderr>>

argVars == <<nargs, rawOK>>

vars == <<cpc, cin, cmsg, cbuf, cerr, pc, pid, sock, deferred, ips, dst, wall, mono,
          today, transmitTime, wb, deadline, rb, peer, receivedTime, rm, ts, perr, out,
          ret, calls, resolverErr, nargs, rawOK, stderr>>

\* ------------------------------------------------------------- the codec alone

\* Identifiers and sequence numbers tried, some outside 16 bits.
IDSamples == {0, 1, 256, 4660, 65535, 65536, 70000, -1}

SeqSamples == {0, 1, 513, 65535, 65537}

\* uint32 values tried: 0, 1, 255, 2^16, 0x01020304, 2^31, 2^32 - 1.
U32Samples == {<<0, 0>>, <<0, 1>>, <<0, 255>>, <<1, 0>>, <<258, 772>>, <<32768, 0>>,
               <<65535, 65535>>}

ByteSamples == {0, 1, 128, 255}

TimestampSamples ==
    {Timestamp(id, seq, o, r, t) :
        id \in IDSamples, seq \in SeqSamples, o \in {<<0, 1>>, <<258, 772>>},
        r \in U32Samples, t \in U32Samples}

\* Byte strings of every length up to MaxBodyLen: one byte at one place, another
\* byte everywhere else.
ByteSeqSamples ==
    {[i \in 1 .. n |-> IF i = at THEN v ELSE fill] :
        n \in 0 .. MaxBodyLen, at \in 1 .. MaxBodyLen, v \in ByteSamples,
        fill \in ByteSamples}

NoInput == [kind |-> "none", msg |-> NilTs, b |-> <<>>]

CodecIdle ==
    /\ cpc = "idle"
    /\ cin = NoInput
    /\ cmsg = NilTs
    /\ cbuf = <<>>
    /\ cerr = Nil

CodecInit ==
    /\ cerr = Nil
    /\ \/ \E m \in TimestampSamples :
            /\ cpc = "msg"
            /\ cin = [kind |-> "msg", msg |-> m, b |-> <<>>]
            /\ cmsg = m
            /\ cbuf = <<>>
       \/ \E b \in ByteSeqSamples :
            /\ cpc = "bytes"
            /\ cin = [kind |-> "bytes", msg |-> NilTs, b |-> b]
            /\ cmsg = NilTs
            /\ cbuf = b

\* b, err := t.Marshal(proto)
CodecMarshal ==
    /\ cpc \in {"msg", "parsed"}
    /\ LET r == Marshal(cmsg) IN
        /\ cbuf' = r.b
        /\ cerr' = r.err
    /\ cpc' = "marshalled"
    /\ UNCHANGED <<cin, cmsg>>
    /\ UNCHANGED <<pingVars, mainVars>>

\* p, err := ParseTimestamp(b)
CodecParse ==
    /\ cpc \in {"bytes", "marshalled"}
    /\ LET r == ParseTimestamp(cbuf) IN
        /\ cmsg' = r.ts
        /\ cerr' = r.err
        /\ cpc' = IF r.err = Nil THEN "parsed" ELSE "parseFailed"
    /\ UNCHANGED <<cin, cbuf>>
    /\ UNCHANGED <<pingVars, mainVars>>

CodecNext == CodecMarshal \/ CodecParse

\* --------------------------------------------------------------------- clock

\* A wall-clock reading is [day, ms]: the UTC day since the epoch and the
\* millisecond of that day.
AddMs(t, k) == [day |-> t.day + ((t.ms + k) \div MsPerDay), ms |-> (t.ms + k) % MsPerDay]

\* t.UnixNano() / 1000000, an int64.
UnixMs(t) ==
    Wide((MsPerDay \div TwoTo16) * t.day, (MsPerDay % TwoTo16) * t.day + t.ms)

\* t.Truncate(24 * time.Hour)
Truncate24h(t) == [day |-> t.day, ms |-> 0]

\* Wall-clock readings doPing may start at: early in a day, and just before
\* midnight.
WallStarts == {[day |-> 20000, ms |-> 1000], [day |-> 20000, ms |-> 86399990]}

\* Milliseconds the encoding and the write take.
SendDelays == {0, 2}

\* Milliseconds a datagram takes to arrive once the deadline is set.
WaitSamples == {0, 38, 2999}

\* Steps of the wall clock against the monotonic clock during the wait: none,
\* five seconds back, 49 days forward.
WallSteps == {[days |-> 0, ms |-> 0], [days |-> 0, ms |-> -5000], [days |-> 49, ms |-> 0]}

\* The wall clock t after k monotonic milliseconds and the step j.
Advance(t, k, j) == AddMs([day |-> t.day + j.days, ms |-> t.ms], k + j.ms)

\* --------------------------------------------------------------- collaborators

\* checksum(b) of golang.org/x/net/icmp, which Message.Marshal stores in the
\* header: the sum of the little-endian 16-bit words, folded and complemented.
sumWordsFrom[b \in Seq(Nat), i \in Nat] ==
    IF i > Len(b) THEN 0
    ELSE IF i = Len(b) THEN b[i]
    ELSE BitOr(b[i + 1] * TwoTo8, b[i]) + sumWordsFrom[b, i + 2]

sumWords(b, i) == sumWordsFrom[b, i]

checksum(b) ==
    LET s0 == sumWords(b, 1)
        s1 == Shr(s0, 16) + (s0 % TwoTo16)
        s2 == s1 + Shr(s1, 16)
    IN  (TwoTo16 - 1) - (s2 % TwoTo16)

\* wm.Marshal(nil) for an IPv4 ICMP message of type typ, code code and body t:
\* the pair (bytes, error).
MessageMarshal(typ, code, t) ==
    LET mb == Marshal(t)
        b0 == <<Byte(typ), Byte(code), 0, 0>> \o mb.b
        s  == checksum(b0)
    IN  IF mb.err # Nil THEN [b |-> <<>>, err |-> mb.err]
        ELSE [b |-> [b0 EXCEPT ![3] = Byte(s), ![4] = Byte(Shr(s, 8))], err |-> Nil]

\* The ICMP types whose body icmp.ParseMessage parses itself; it keeps the body
\* of any other type as raw bytes.
TypesWithParser == {0, 3, 8, 11, 12}

\* icmp.ParseMessage(tt.protocol, rb[:n]): the pair (*Message, error).
ParseMessage(b) ==
    IF Len(b) < icmpHeaderLen THEN [m |-> NoMsg, err |-> Err("message too short", 0)]
    ELSE LET body == SubSeq(b, icmpHeaderLen + 1, Len(b)) IN
         IF b[1] \in TypesWithParser /\ Len(body) < 4
         THEN [m |-> NoMsg, err |-> Err("message too short", 0)]
         ELSE [m |-> [Type |-> b[1], Code |-> b[2],
                      Checksum |-> BitOr(b[3] * TwoTo8, b[4]), Body |-> body],
               err |-> Nil]

\* Addresses net.LookupIP may list.
IPSamples == {[fam |-> "v4", a |-> "192.0.2.1"], [fam |-> "v4", a |-> "192.0.2.2"],
              [fam |-> "v6", a |-> "2001:db8::1"]}

RECURSIVE SeqsUpTo(_, _)
SeqsUpTo(S, n) ==
    IF n = 0 THEN {<<>>}
    ELSE LET shorter == SeqsUpTo(S, n - 1) IN
         shorter \cup {Append(q, x) : q \in shorter, x \in S}

IPLists == SeqsUpTo(IPSamples, MaxIPs)

\* A faulty variant of To4NotNil: every address passes.
To4NotNilAlways(ip) == TRUE

\* ip.To4() != nil
To4NotNil(ip) == ip.fam = "v4"

\* c.LocalAddr() of a connection listening on "ip4:icmp" is a *net.IPAddr.
LocalAddrType == "IPAddr"

\* netaddr(ip) of getAddr
netaddr(ip) ==
    IF LocalAddrType = "UDPAddr" THEN [addr |-> [type |-> "UDPAddr", ip |-> ip.a], err |-> Nil]
    ELSE IF LocalAddrType = "IPAddr" THEN [addr |-> [type |-> "IPAddr", ip |-> ip.a], err |-> Nil]
    ELSE [addr |-> [type |-> "", ip |-> ""], err |-> Err("neither UDPAddr nor IPAddr", 0)]

NoAddr == [type |-> "", ip |-> ""]

\* The loop of getAddr over ips, from index i on.
RECURSIVE firstIPv4(_, _)
firstIPv4(list, i) ==
    IF i > Len(list) THEN [addr |-> NoAddr, err |-> Err("no A or AAAA record", 0)]
    ELSE IF To4NotNil(list[i]) THEN netaddr(list[i])
    ELSE firstIPv4(list, i + 1)

\* getAddr(host, c, protocol) when net.LookupIP returned (list, lookupErr).
getAddr(list, lookupErr) ==
    IF lookupErr # Nil THEN [addr |-> NoAddr, err |-> lookupErr]
    ELSE firstIPv4(list, 1)

\* -------------------------------------------------------------------- doPing

\* p := &Ping{"ip4:icmp", "0.0.0.0", iana.ProtocolICMP, ipv4.ICMPTypeTimestamp}
\* and doPing(host, p, 0) of main.
PingOfMain == [network |-> "ip4:icmp", address |-> "0.0.0.0", protocol |-> 1,
               mtype |-> ICMPTypeTimestamp]

seqOfMain == 0

PidSamples == {4242, 70000}

\* Timestamp bodies a peer may answer with.
ReplySamples ==
    {Timestamp(id, 1, <<0, 1000>>, r, t) :
        id \in {4242, 9},
        r \in {<<0, 0>>, <<0, 1010>>, <<65535, 65535>>},
        t \in {<<0, 0>>, <<0, 1020>>, <<65535, 65535>>}}

OneReplyBody == Marshal(Timestamp(4242, 1, <<0, 1000>>, <<0, 1010>>, <<0, 1020>>)).b

\* A reply that matches the request in nothing: another identifier, another
\* sequence number, another originateTimestamp.
StrangerReplyBody == Marshal(Timestamp(9, 2, <<0, 7>>, <<0, 1010>>, <<0, 1020>>)).b

\* Bodies of a length other than 16: empty, one byte short, one byte long.
WrongLengthBodies ==
    {<<>>, SubSeq(OneReplyBody, 1, marshalledTimestampLen - 1), OneReplyBody \o <<0>>}

\* The header a sender puts before body: type, code 0 and the checksum.
WithHeader(typ, body) ==
    LET b0 == <<typ, 0, 0, 0>> \o body
        s  == checksum(b0)
    IN  [b0 EXCEPT ![3] = Byte(s), ![4] = Byte(Shr(s, 8))]

\* Datagrams the socket may deliver: Timestamp Replies, well-formed and not,
\* an Echo Reply, a Destination Unreachable, a Timestamp Request, and two that
\* are no ICMP message.
Datagrams ==
    {WithHeader(ICMPTypeTimestampReply, Marshal(t).b) : t \in ReplySamples}
    \cup {WithHeader(ICMPTypeTimestampReply, b) : b \in WrongLengthBodies}
    \cup {WithHeader(ICMPTypeEchoReply, OneReplyBody),
          WithHeader(ICMPTypeDestinationUnreachable, OneReplyBody),
          WithHeader(ICMPTypeTimestamp, OneReplyBody),
          WithHeader(ICMPTypeEchoReply, <<0, 1>>),
          <<ICMPTypeTimestampReply, 0>>}

\* A datagram with its sender: every datagram from the first address the
\* resolver may give, and some from a host that was never addressed.
Deliveries ==
    {[b |-> d, peer |-> "192.0.2.1"] : d \in Datagrams}
    \cup {[b |-> WithHeader(ICMPTypeTimestampReply, OneReplyBody), peer |-> "198.51.100.7"],
          [b |-> WithHeader(ICMPTypeTimestampReply, StrangerReplyBody), peer |-> "198.51.100.7"],
          [b |-> WithHeader(ICMPTypeEchoReply, OneReplyBody), peer |-> "198.51.100.7"],
          [b |-> WithHeader(ICMPTypeTimestampReply, <<>>), peer |-> "198.51.100.7"]}

NoOut == [printed |-> FALSE, Originate |-> <<0, 0>>, Receive |-> <<0, 0>>,
          Transmit |-> <<0, 0>>, tsrtt |-> <<0, 0>>, delta |-> <<0, 0>>]

PingStart ==
    /\ sock = "none"
    /\ deferred = FALSE
    /\ ips = <<>>
    /\ dst = NoAddr
    /\ mono = 0
    /\ today = <<0, 0>>
    /\ transmitTime = <<0, 0>>
    /\ wb = <<>>
    /\ deadline = -1
    /\ rb = <<>>
    /\ peer = ""
    /\ receivedTime = <<0, 0>>
    /\ rm = NoMsg
    /\ ts = NilTs
    /\ perr = Nil
    /\ out = NoOut
    /\ ret = Nil
    /\ calls = <<>>
    /\ resolverErr = Nil
    /\ stderr = <<>>

PingIdle ==
    /\ pc = "idle"
    /\ pid = 0
    /\ wall = [day |-> 0, ms |-> 0]
    /\ nargs = 1
    /\ rawOK = TRUE
    /\ PingStart

\* The process as `sudo goclockdiff <destination>` starts it.
PingInit ==
    /\ pc = "main"
    /\ pid \in PidSamples
    /\ wall \in WallStarts
    /\ nargs = 1
    /\ rawOK = TRUE
    /\ PingStart

\* Numbers of command-line arguments tried.
ArgCounts == {0, 1, 2}

\* The process started with any number of arguments, with or without the
\* permission to open raw sockets.
MainInit ==
    /\ pc = "main"
    /\ pid \in {4242}
    /\ wall \in {[day |-> 20000, ms |-> 1000]}
    /\ nargs \in ArgCounts
    /\ rawOK \in BOOLEAN
    /\ PingStart

\* What the process can write on standard error: the text of help() and the
\* message the Go runtime writes for a panic.
Usage == [kind |-> "usage", err |-> Nil]

GoPanic == [kind |-> "panic", err |-> Nil]

\* if len(flag.Args()) != 1 { help() }
helpForArgs(n) == IF n # 1 THEN <<Usage>> ELSE <<>>

\* if _, ok := nettest.SupportsRawIPSocket(); !ok { help() }
helpForRaw(ok) == IF ~ok THEN <<Usage>> ELSE <<>>

\* One entry of calls: the call, the error and the byte count it returned, and
\* the monotonic time it returned at.
Call(op, e, n, at) == [op |-> op, err |-> e, n |-> n, at |-> at]

\* A faulty variant of Exit: a return that leaves the socket open.
ExitWithoutClose(to, e, log, at) ==
    /\ pc' = to
    /\ ret' = e
    /\ sock' = sock
    /\ calls' = log
    /\ stderr' = IF to = "panicked" THEN Append(stderr, GoPanic) ELSE stderr

\* A return of doPing with error e after the calls in log, at monotonic time
\* at: the deferred c.Close() runs. doPing(host, p, 0) is the last statement of
\* main, which drops the value returned and writes nothing, so the process is
\* over with the return; a panic ends it with the runtime's message.
Exit(to, e, log, at) ==
    /\ pc' = to
    /\ ret' = e
    /\ sock' = IF deferred THEN "closed" ELSE sock
    /\ calls' = IF deferred THEN Append(log, Call("Close", Nil, 0, at)) ELSE log
    /\ stderr' = IF to = "panicked" THEN Append(stderr, GoPanic) ELSE stderr

\* main up to the call of doPing: help() prints and returns, so main goes on
\* after it; flag.Args()[0] panics when there is no argument.
Main ==
    /\ pc = "main"
    /\ IF nargs = 0
       THEN /\ pc' = "panicked"
            /\ stderr' = Append(helpForArgs(nargs), GoPanic)
       ELSE /\ pc' = "listen"
            /\ stderr' = helpForArgs(nargs) \o helpForRaw(rawOK)
    /\ UNCHANGED <<pid, resolverErr, sock, deferred, ips, dst, wall, mono, today, transmitTime,
                   wb, deadline, rb, peer, receivedTime, rm, ts, perr, out, ret, calls>>
    /\ UNCHANGED <<codecVars, argVars>>

\* c, err := icmp.ListenPacket(tt.network, tt.address), which fails
ListenFails ==
    /\ pc = "listen"
    /\ Exit("done", Err("listen", 0),
            Append(calls, Call("ListenPacket", Err("listen", 0), 0, mono)), mono)
    /\ UNCHANGED <<pid, resolverErr, deferred, ips, dst, wall, mono, today, transmitTime, wb, deadline,
                   rb, peer, receivedTime, rm, ts, perr, out>>
    /\ UNCHANGED <<codecVars, argVars>>

\* c, err := icmp.ListenPacket(tt.network, tt.address); defer c.Close()
Listen ==
    /\ pc = "listen"
    /\ sock' = "open"
    /\ deferred' = TRUE
    /\ calls' = Append(calls, Call("ListenPacket", Nil, 0, mono))
    /\ pc' = "resolve"
    /\ UNCHANGED <<pid, resolverErr, ips, dst, wall, mono, today, transmitTime, wb, deadline, rb, peer,
                   receivedTime, rm, ts, perr, out, ret, stderr>>
    /\ UNCHANGED <<codecVars, argVars>>

\* dst, err := getAddr(host, c, tt.protocol)
Resolve ==
    /\ pc = "resolve"
    /\ \E list \in IPLists, e \in {Nil, Err("lookup", 0)} :
         /\ e # Nil => list = <<>>
         /\ LET r == getAddr(list, e) IN
              /\ ips' = list
              /\ resolverErr' = e
              /\ dst' = r.addr
              /\ IF r.err # Nil
                 THEN Exit("done", r.err, Append(calls, Call("getAddr", r.err, 0, mono)), mono)
                 ELSE /\ pc' = "send"
                      /\ calls' = Append(calls, Call("getAddr", Nil, 0, mono))
                      /\ UNCHANGED <<sock, ret, stderr>>
    /\ UNCHANGED <<pid, deferred, wall, mono, today, transmitTime, wb, deadline, rb, peer,
                   receivedTime, rm, ts, perr, out>>
    /\ UNCHANGED <<codecVars, argVars>>

\* os.Getpid() & 0xffff
And0xffff(x) == x % TwoTo16

\* A faulty variant of RequestBody: the send sample stored as ReceiveTimestamp.
RequestBodyStampsReceive(id, seq, transmit) ==
    Timestamp(And0xffff(id), Pow2(seq), <<0, 0>>, transmit, <<0, 0>>)

\* The body of wm: ID, Seq and OriginTimestamp set, the other two fields zero.
RequestBody(id, seq, transmit) ==
    Timestamp(And0xffff(id), Pow2(seq), transmit, <<0, 0>>, <<0, 0>>)

WriteOutcomes == {"written", "short", "error"}

\* A faulty variant of shortWrite: the byte count is never looked at.
shortWriteIgnored(n, want) == FALSE

\* else if n != len(wb)
shortWrite(n, want) == n # want

\* now := time.Now() ... c.WriteTo(wb, dst): the clock sample, the request, its
\* encoding and the write, which takes d milliseconds.
Send ==
    /\ pc = "send"
    /\ \E m \in {MessageMarshal(PingOfMain.mtype, 0,
                                RequestBody(pid, seqOfMain,
                                            Uint32(WSub(UnixMs(wall), UnixMs(Truncate24h(wall))))))},
          d \in SendDelays, w \in WriteOutcomes :
         LET now    == wall
             midn   == UnixMs(Truncate24h(now))
             tt     == Uint32(WSub(UnixMs(now), midn))
             n      == IF w = "written" THEN Len(m.b) ELSE IF w = "short" THEN Len(m.b) - 1 ELSE 0
             werr   == IF w = "error" THEN Err("write", 0) ELSE Nil
             log    == Append(Append(calls, Call("Marshal", Nil, 0, mono)),
                              Call("WriteTo", werr, n, mono + d))
         IN  /\ today' = midn
             /\ transmitTime' = tt
             /\ IF m.err # Nil
                THEN /\ Exit("done", m.err, Append(calls, Call("Marshal", m.err, 0, mono)), mono)
                     /\ UNCHANGED <<wb, wall, mono>>
                ELSE /\ wb' = m.b
                     /\ wall' = AddMs(wall, d)
                     /\ mono' = mono + d
                     /\ IF werr # Nil
                        THEN Exit("done", werr, log, mono + d)
                        ELSE IF shortWrite(n, Len(m.b))
                        THEN Exit("done", Err("got; want", n), log, mono + d)
                        ELSE /\ pc' = "deadline"
                             /\ calls' = log
                             /\ UNCHANGED <<sock, ret, stderr>>
    /\ UNCHANGED <<pid, resolverErr, deferred, ips, dst, deadline, rb, peer, receivedTime, rm, ts, perr, out>>
    /\ UNCHANGED <<codecVars, argVars>>

\* c.SetReadDeadline(time.Now().Add(3 * time.Second))
SetReadDeadline ==
    /\ pc = "deadline"
    /\ \E ok \in BOOLEAN :
         IF ok
         THEN /\ deadline' = mono + ReadTimeoutMs
              /\ pc' = "read"
              /\ calls' = Append(calls, Call("SetReadDeadline", Nil, 0, mono))
              /\ UNCHANGED <<sock, ret, stderr>>
         ELSE /\ deadline' = deadline
              /\ Exit("done", Err("set deadline", 0),
                      Append(calls, Call("SetReadDeadline", Err("set deadline", 0), 0, mono)), mono)
    /\ UNCHANGED <<pid, resolverErr, deferred, ips, dst, wall, mono, today, transmitTime, wb, rb, peer,
                   receivedTime, rm, ts, perr, out>>
    /\ UNCHANGED <<codecVars, argVars>>

\* A faulty variant of ReadTimesOut: the read is tried again after a timeout.
ReadTimesOutAndRetries ==
    /\ pc = "read"
    /\ mono' = deadline
    /\ wall' = AddMs(wall, deadline - mono)
    /\ deadline' = deadline + ReadTimeoutMs
    /\ calls' = Append(calls, Call("ReadFrom", Err("i/o timeout", 0), 0, deadline))
    /\ UNCHANGED <<pc, pid, resolverErr, sock, deferred, ips, dst, today, transmitTime, wb, rb, peer,
                   receivedTime, rm, ts, perr, out, ret, stderr>>
    /\ UNCHANGED <<codecVars, argVars>>

\* n, peer, err := c.ReadFrom(rb): no datagram arrives and the deadline expires.
ReadTimesOut ==
    /\ pc = "read"
    /\ \E j \in WallSteps :
         /\ mono' = deadline
         /\ wall' = Advance(wall, deadline - mono, j)
    /\ Exit("done", Err("i/o timeout", 0),
            Append(calls, Call("ReadFrom", Err("i/o timeout", 0), 0, deadline)), deadline)
    /\ UNCHANGED <<pid, resolverErr, deferred, ips, dst, today, transmitTime, wb, deadline, rb, peer,
                   receivedTime, rm, ts, perr, out>>
    /\ UNCHANGED <<codecVars, argVars>>

\* n, peer, err := c.ReadFrom(rb): the read fails for another reason.
ReadFails ==
    /\ pc = "read"
    /\ Exit("done", Err("read", 0), Append(calls, Call("ReadFrom", Err("read", 0), 0, mono)), mono)
    /\ UNCHANGED <<pid, resolverErr, deferred, ips, dst, wall, mono, today, transmitTime, wb, deadline,
                   rb, peer, receivedTime, rm, ts, perr, out>>
    /\ UNCHANGED <<codecVars, argVars>>

\* A faulty variant of receivedTimeOf: the receive sample against the midnight
\* of its own instant.
receivedTimeOwnMidnight(t, midn) == WSub(UnixMs(t), UnixMs(Truncate24h(t)))

\* receivedTime := time.Now().UnixNano()/1000000 - today, at the instant t and
\* with the today of line 108.
receivedTimeOf(t, midn) == WSub(UnixMs(t), midn)

\* n, peer, err := c.ReadFrom(rb): a datagram arrives before the deadline;
\* receivedTime := time.Now().UnixNano()/1000000 - today
ReadFrom ==
    /\ pc = "read"
    /\ \E w \in WaitSamples :
         /\ mono + w < deadline
         /\ mono' = mono + w
         /\ \E j \in WallSteps :
              /\ wall' = Advance(wall, w, j)
              /\ receivedTime' = receivedTimeOf(Advance(wall, w, j), today)
         /\ \E d \in Deliveries :
              /\ rb' = d.b
              /\ peer' = d.peer
              /\ calls' = Append(calls, Call("ReadFrom", Nil, Len(d.b), mono + w))
    /\ pc' = "parse"
    /\ UNCHANGED <<pid, resolverErr, sock, deferred, ips, dst, today, transmitTime, wb, deadline, rm, ts,
                   perr, out, ret, stderr>>
    /\ UNCHANGED <<codecVars, argVars>>

\* rm, err := icmp.ParseMessage(tt.protocol, rb[:n])
ParseReply ==
    /\ pc = "parse"
    /\ LET r == ParseMessage(rb) IN
         /\ rm' = r.m
         /\ IF r.err # Nil
            THEN Exit("done", r.err, Append(calls, Call("ParseMessage", r.err, 0, mono)), mono)
            ELSE /\ pc' = "switch"
                 /\ calls' = Append(calls, Call("ParseMessage", Nil, 0, mono))
                 /\ UNCHANGED <<sock, ret, stderr>>
    /\ UNCHANGED <<pid, resolverErr, deferred, ips, dst, wall, mono, today, transmitTime, wb, deadline,
                   rb, peer, receivedTime, ts, perr, out>>
    /\ UNCHANGED <<codecVars, argVars>>

\* A faulty variant of rttOf: the sum without the absolute value.
rttNoAbs(t1, t2, t3, t4) == WSub(WAdd(WSub(t2, t1), t4), t3)

\* rtt := int64(math.Abs(float64(remoteReceiveTime - int64(transmitTime)
\*                               + receivedTime - int64(ts.TransmitTimestamp))))
rttOf(t1, t2, t3, t4) == AbsViaFloat64(WSub(WAdd(WSub(t2, t1), t4), t3))

\* A faulty variant of deltaOf: the two clock samples exchanged.
deltaSwapped(rtt, t1, t2) == WSub(WAdd(WQuo2(rtt), t2), t1)

\* delta := rtt/2 + int64(transmitTime) - remoteReceiveTime
deltaOf(rtt, t1, t2) == WSub(WAdd(WQuo2(rtt), t1), t2)

\* A faulty variant of HandleTimestampReply: a reply whose identifier is not the
\* one sent is refused.
HandleTimestampReplyChecksID ==
    /\ pc = "switch"
    /\ rm.Type = ICMPTypeTimestampReply
    /\ \E r \in {ParseTimestamp(rm.Body)} :
       LET log == Append(calls, Call("ParseTimestamp", r.err, 0, mono))
       IN  /\ ts' = r.ts
           /\ perr' = r.err
           /\ IF r.ts.isNil
              THEN /\ out' = out
                   /\ Exit("panicked", ret, log, mono)
              ELSE IF r.ts.ID # And0xffff(pid)
              THEN /\ out' = out
                   /\ Exit("done", Err("identifier mismatch", r.ts.ID), log, mono)
              ELSE \E rtt \in {rttOf(transmitTime, r.ts.ReceiveTimestamp,
                                       r.ts.TransmitTimestamp, receivedTime)} :
                   LET remoteReceiveTime == r.ts.ReceiveTimestamp
                       delta == deltaOf(rtt, transmitTime, remoteReceiveTime)
                   IN  /\ out' = [printed |-> TRUE,
                                  Originate |-> r.ts.OriginTimestamp,
                                  Receive |-> r.ts.ReceiveTimestamp,
                                  Transmit |-> r.ts.TransmitTimestamp,
                                  tsrtt |-> rtt, delta |-> delta]
                       /\ Exit("done", Nil, log, mono)
    /\ UNCHANGED <<pid, resolverErr, deferred, ips, dst, wall, mono, today, transmitTime, wb, deadline,
                   rb, peer, receivedTime, rm>>
    /\ UNCHANGED <<codecVars, argVars>>

\* case ipv4.ICMPTypeTimestampReply: the body is decoded, and the fields of ts
\* are read whatever ParseTimestamp returned: on a nil ts the read panics, the
\* deferred c.Close() runs and the process dies.
HandleTimestampReply ==
    /\ pc = "switch"
    /\ rm.Type = ICMPTypeTimestampReply
    /\ \E r \in {ParseTimestamp(rm.Body)} :
       LET log == Append(calls, Call("ParseTimestamp", r.err, 0, mono))
       IN  /\ ts' = r.ts
           /\ perr' = r.err
           /\ IF r.ts.isNil
              THEN /\ out' = out
                   /\ Exit("panicked", ret, log, mono)
              ELSE \E rtt \in {rttOf(transmitTime, r.ts.ReceiveTimestamp,
                                       r.ts.TransmitTimestamp, receivedTime)} :
                   LET remoteReceiveTime == r.ts.ReceiveTimestamp
                       delta == deltaOf(rtt, transmitTime, remoteReceiveTime)
                   IN  /\ out' = [printed |-> TRUE,
                                  Originate |-> r.ts.OriginTimestamp,
                                  Receive |-> r.ts.ReceiveTimestamp,
                                  Transmit |-> r.ts.TransmitTimestamp,
                                  tsrtt |-> rtt, delta |-> delta]
                       /\ Exit("done", Nil, log, mono)
    /\ UNCHANGED <<pid, resolverErr, deferred, ips, dst, wall, mono, today, transmitTime, wb, deadline,
                   rb, peer, receivedTime, rm>>
    /\ UNCHANGED <<codecVars, argVars>>

\* A faulty variant of HandleOtherType: a reply of another type ends the exchange
\* without an error.
HandleOtherTypeSucceeds ==
    /\ pc = "switch"
    /\ rm.Type # ICMPTypeTimestampReply
    /\ Exit("done", Nil, calls, mono)
    /\ UNCHANGED <<pid, resolverErr, deferred, ips, dst, wall, mono, today, transmitTime, wb,
                   deadline, rb, peer, receivedTime, rm, ts, perr, out>>
    /\ UNCHANGED <<codecVars, argVars>>

\* default: return fmt.Errorf("got %+v from %v; want echo reply", rm, peer)
HandleOtherType ==
    /\ pc = "switch"
    /\ rm.Type # ICMPTypeTimestampReply
    /\ Exit("done", ErrWantEchoReply(rm, peer), calls, mono)
    /\ UNCHANGED <<pid, resolverErr, deferred, ips, dst, wall, mono, today, transmitTime, wb, deadline,
                   rb, peer, receivedTime, rm, ts, perr, out>>
    /\ UNCHANGED <<codecVars, argVars>>

PingNext ==
    \/ Main
    \/ ListenFails
    \/ Listen
    \/ Resolve
    \/ Send
    \/ SetReadDeadline
    \/ ReadTimesOut
    \/ ReadFails
    \/ ReadFrom
    \/ ParseReply
    \/ HandleTimestampReply
    \/ HandleOtherType

\* ------------------------------------------------------------- specifications

\* One run of the process with one argument and raw sockets permitted.
Init == PingInit /\ CodecIdle

Next == PingNext

Spec == Init /\ [][Next]_vars

\* The codec on its own: Marshal and ParseTimestamp applied to sampled input.
InitCodec == CodecInit /\ PingIdle

CodecSpec == InitCodec /\ [][CodecNext]_vars

\* One run of the process whatever its arguments and permissions.
InitMain == MainInit /\ CodecIdle

MainSpec == InitMain /\ [][Next]_vars

\* One run of one process started with one argument and raw sockets permitted.
InitFair == MainInit /\ nargs = 1 /\ rawOK = TRUE /\ CodecIdle

\* doPing is straight-line code whose only blocking call, ReadFrom, returns at
\* the read deadline at the latest: a step that can be taken is taken.
FairSpec == InitFair /\ [][Next]_vars /\ WF_vars(Next)

\* --------------------------------------------------------------------- claims

Terminal == {"done", "panicked"}

\* The number of calls of op made so far.
Count(op) == Cardinality({i \in DOMAIN calls : calls[i].op = op})

\* The calls of op that returned no error.
Succeeded(op) == {i \in DOMAIN calls : calls[i].op = op /\ calls[i].err = Nil}

\* The steps of doPing in program order.
StepOrder == <<"ListenPacket", "getAddr", "Marshal", "WriteTo", "SetReadDeadline",
               "ReadFrom", "ParseMessage", "ParseTimestamp">>

\* C1: when ParseTimestamp fails inside doPing (a Timestamp Reply whose body is
\* not 16 bytes long), the exchange does not crash: it ends with a decode error
\* returned, an error that is not the wrong-reply-type error, and with no
\* RTT/delta output.
C1_DecodeFailureIsReported ==
    perr # Nil =>
        /\ pc = "done"
        /\ ret = perr
        /\ ret.kind # "want echo reply"
        /\ ~out.printed

\* 16-bit identifier and sequence; the three timestamps are uint32 by their type.
InRange(m) ==
    /\ m.ID \in 0 .. (TwoTo16 - 1)
    /\ m.Seq \in 0 .. (TwoTo16 - 1)
    /\ \A f \in {m.OriginTimestamp, m.ReceiveTimestamp, m.TransmitTimestamp} :
          f[1] \in 0 .. (TwoTo16 - 1) /\ f[2] \in 0 .. (TwoTo16 - 1)

\* C2: for every Timestamp m with ID and Seq in 0 .. 2^16 - 1 and timestamps in
\* 0 .. 2^32 - 1, ParseTimestamp(Marshal(m)) succeeds and returns a message
\* equal to m in all five fields.
C2_RoundTrip ==
    (cin.kind = "msg" /\ InRange(cin.msg) /\ cpc \in {"parsed", "parseFailed"}) =>
        /\ cpc = "parsed"
        /\ cerr = Nil
        /\ ~cmsg.isNil
        /\ cmsg.ID = cin.msg.ID
        /\ cmsg.Seq = cin.msg.Seq
        /\ cmsg.OriginTimestamp = cin.msg.OriginTimestamp
        /\ cmsg.ReceiveTimestamp = cin.msg.ReceiveTimestamp
        /\ cmsg.TransmitTimestamp = cin.msg.TransmitTimestamp

\* A message with the largest identifier and a timestamp of 2^32 - 1 came back
\* from the round trip.
C2_Witness ==
    /\ cin.kind = "msg"
    /\ cpc = "parsed"
    /\ cin.msg.ID = TwoTo16 - 1
    /\ cin.msg.Seq = 513
    /\ cin.msg.OriginTimestamp = <<258, 772>>
    /\ cin.msg.ReceiveTimestamp = <<65535, 65535>>
    /\ cin.msg.TransmitTimestamp = <<32768, 0>>
    /\ cmsg = cin.msg

\* C3: Marshal returns exactly 16 bytes and no error; ParseTimestamp returns an
\* error and no message for every input whose length is not 16, and a message
\* and no error for every input of length 16.
C3_FixedLength ==
    /\ cpc = "marshalled" => (Len(cbuf) = 16 /\ cerr = Nil)
    /\ (cpc \in {"parsed", "parseFailed"} /\ Len(cbuf) # 16) => (cerr # Nil /\ cmsg.isNil)
    /\ (cpc \in {"parsed", "parseFailed"} /\ Len(cbuf) = 16) => (cerr = Nil /\ ~cmsg.isNil)

\* ParseTimestamp refused 17 bytes.
C3_Witness ==
    /\ cin.kind = "bytes"
    /\ Len(cbuf) = 17
    /\ cpc = "parseFailed"
    /\ cerr # Nil
    /\ cmsg.isNil

\* What C4 says in both its forms: at most one write and one read; a finished
\* exchange whose socket opened and whose address resolved made exactly one
\* write; after a timeout or a reply of the wrong type the exchange has failed
\* with one write and one read made and none further.
C4_Common ==
    /\ Count("WriteTo") <= 1
    /\ Count("ReadFrom") <= 1
    /\ (pc \in Terminal /\ Succeeded("ListenPacket") # {} /\ Succeeded("getAddr") # {})
          => Count("WriteTo") = 1
    /\ ret.kind \in {"i/o timeout", "want echo reply"}
          => (pc = "done" /\ Count("WriteTo") = 1 /\ Count("ReadFrom") = 1)

\* The write that returned no error and the full length.
WriteSucceeded ==
    \E i \in DOMAIN calls :
        calls[i].op = "WriteTo" /\ calls[i].err = Nil /\ calls[i].n = Len(wb)

\* C4 as stated: ..., and when the write succeeds exactly one read attempt
\* follows.
C4_OneWriteOneRead ==
    /\ C4_Common
    /\ (pc \in Terminal /\ WriteSucceeded) => Count("ReadFrom") = 1

\* C4 as amended: ..., and when the write succeeds and the read deadline is
\* then set, exactly one read attempt follows; when setting the deadline fails
\* no read is attempted.
C4_OneWriteOneReadOnceDeadlineSet ==
    /\ C4_Common
    /\ (pc \in Terminal /\ WriteSucceeded /\ Succeeded("SetReadDeadline") # {})
          => Count("ReadFrom") = 1
    /\ (Count("SetReadDeadline") = 1 /\ Succeeded("SetReadDeadline") = {})
          => (pc = "done" /\ Count("ReadFrom") = 0)

\* The exchange failed on a timeout after its one write and its one read.
C4_Witness ==
    /\ pc = "done"
    /\ ret.kind = "i/o timeout"
    /\ WriteSucceeded
    /\ Count("WriteTo") = 1
    /\ Count("ReadFrom") = 1

\* C5: once the socket is opened it is closed on every exit path (returns and
\* the panic alike): no terminal state has it open, a terminal state reached
\* after it opened has it closed with Close as the last call, and every write
\* comes after the opening and before the close.
C5_SocketClosedOnEveryExit ==
    /\ pc \in Terminal => sock # "open"
    /\ (pc \in Terminal /\ Succeeded("ListenPacket") # {}) =>
          /\ sock = "closed"
          /\ calls[Len(calls)].op = "Close"
          /\ Count("Close") = 1
    /\ \A i \in DOMAIN calls :
          calls[i].op \in {"WriteTo", "SetReadDeadline", "ReadFrom"} =>
              /\ \E k \in 1 .. (i - 1) : calls[k].op = "ListenPacket" /\ calls[k].err = Nil
              /\ \A k \in 1 .. i : calls[k].op # "Close"
    /\ pc \notin Terminal => sock # "closed"

\* The exchange died decoding a reply of the wrong length, and the socket is closed.
C5_Witness ==
    /\ pc = "panicked"
    /\ perr # Nil
    /\ sock = "closed"
    /\ Count("WriteTo") = 1

\* The step a call stands for failed: it returned an error, or it is the write
\* and wrote another number of bytes than the encoded length.
StepFailed(c) == c.err # Nil \/ (c.op = "WriteTo" /\ c.n # Len(wb))

\* C6: the steps run in program order, and once a step up to icmp.ParseMessage
\* fails (socket open, resolution, encoding, send error or short write,
\* deadline, read, ICMP parse) doPing has returned: no later step was made, no
\* output was produced, and the error returned is the failing step's (for a
\* short write, the error made from the byte count).
C6_FirstErrorSurfaces ==
    /\ LET steps == SelectSeq(calls, LAMBDA c : c.op # "Close") IN
          /\ Len(steps) <= Len(StepOrder)
          /\ \A i \in DOMAIN steps : steps[i].op = StepOrder[i]
    /\ \A i \in DOMAIN calls :
          (calls[i].op # "ParseTimestamp" /\ StepFailed(calls[i])) =>
              /\ pc = "done"
              /\ ret # Nil
              /\ IF calls[i].err # Nil THEN ret = calls[i].err
                 ELSE ret.kind = "got; want" /\ ret.n = calls[i].n
              /\ \A k \in DOMAIN calls : k > i => calls[k].op = "Close"
              /\ ~out.printed
              /\ ts.isNil

\* A short write ended the exchange before the deadline was set.
C6_Witness ==
    /\ pc = "done"
    /\ ret.kind = "got; want"
    /\ Count("WriteTo") = 1
    /\ Count("SetReadDeadline") = 0
    /\ Count("ReadFrom") = 0

\* C7: the deadline is set after the send; a read that returns a datagram
\* returns less than 3000 ms after the deadline was set; a read on which no
\* datagram arrives fails with the timeout error 3000 ms after the deadline was
\* set, doPing returns that error, nothing is decoded and nothing is printed.
C7_Timeout ==
    \A i \in DOMAIN calls :
        calls[i].op = "ReadFrom" =>
            \E k \in 1 .. (i - 1) :
                /\ calls[k].op = "SetReadDeadline" /\ calls[k].err = Nil
                /\ \E w \in 1 .. (k - 1) : calls[w].op = "WriteTo"
                /\ calls[i].err = Nil => calls[i].at < calls[k].at + 3000
                /\ calls[i].err.kind = "i/o timeout" =>
                      /\ calls[i].at = calls[k].at + 3000
                      /\ pc = "done"
                      /\ ret = calls[i].err
                      /\ ret # Nil
                      /\ rm = NoMsg
                      /\ ts.isNil
                      /\ Count("ParseMessage") = 0
                      /\ Count("ParseTimestamp") = 0
                      /\ ~out.printed

\* The read timed out 3000 ms after a send that took 2 ms.
C7_Witness ==
    /\ pc = "done"
    /\ ret.kind = "i/o timeout"
    /\ mono = 3002
    /\ ~out.printed

\* C8: a parsed ICMP message of a type other than Timestamp Reply makes doPing
\* return the error that carries the message and the sender; its body is never
\* decoded and nothing is printed. Only a Timestamp Reply is decoded.
C8_WrongReplyType ==
    /\ (rm # NoMsg /\ rm.Type # ICMPTypeTimestampReply) =>
          /\ pc \in {"switch", "done"}
          /\ Count("ParseTimestamp") = 0
          /\ ts.isNil
          /\ perr = Nil
          /\ ~out.printed
          /\ pc = "done" =>
                /\ ret.kind = "want echo reply"
                /\ ret.msg = rm
                /\ ret.msg.Type = rb[1]
                /\ ret.peer = peer
                /\ peer # ""
    /\ Count("ParseTimestamp") > 0 => rm.Type = ICMPTypeTimestampReply
    /\ ret.kind = "want echo reply" => (rm # NoMsg /\ rm.Type # ICMPTypeTimestampReply)

\* An Echo Reply from a host that was never addressed was refused.
C8_Witness ==
    /\ pc = "done"
    /\ ret.kind = "want echo reply"
    /\ ret.msg.Type = ICMPTypeEchoReply
    /\ ret.peer = "198.51.100.7"
    /\ ts.isNil

\* The absolute value of an int64, by comparison with its negation.
WAbsOf(a) == IF WLeq(<<0, 0>>, a) THEN a ELSE WSub(<<0, 0>>, a)

\* C9: the RTT printed equals |(T2 - T1) + (T4 - T3)| and |(T4 - T1) - (T3 - T2)|
\* in signed arithmetic without wraparound, T1 the local send sample, T2 and T3
\* the reply's receive and transmit timestamps, T4 the local receive sample,
\* and it is not negative.
C9_RTT ==
    out.printed =>
        LET T1 == transmitTime
            T2 == out.Receive
            T3 == out.Transmit
            T4 == receivedTime
        IN  /\ out.tsrtt = WAbsOf(WAdd(WSub(T2, T1), WSub(T4, T3)))
            /\ out.tsrtt = WAbsOf(WSub(WSub(T4, T1), WSub(T3, T2)))
            /\ WLeq(<<0, 0>>, out.tsrtt)
            /\ out.tsrtt[2] \in 0 .. (TwoTo16 - 1)

\* An RTT from a negative sum: T2 = 0 and T3 = 2^32 - 1, with T1 and T4 small.
C9_Witness ==
    /\ out.printed
    /\ out.Receive = <<0, 0>>
    /\ out.Transmit = <<65535, 65535>>
    /\ transmitTime = <<0, 1000>>
    /\ receivedTime = <<0, 1040>>
    /\ out.tsrtt = <<65535, 65495>>

\* C10: the delta printed equals RTT/2 + T1 - T2, RTT/2 being the quotient
\* truncated toward zero (RTT - 2 * (RTT/2) is 0 or 1); T1 = 1000, T2 = 1010,
\* T3 = 1020, T4 = 1040 gives RTT = 30 and delta = 5.
C10_Delta ==
    out.printed =>
        LET T1 == transmitTime
            T2 == out.Receive
            q  == WSub(WAdd(out.delta, T2), T1)
        IN  /\ WSub(out.tsrtt, WAdd(q, q)) \in {<<0, 0>>, <<0, 1>>}
            /\ (/\ T1 = WideOf(1000)
                /\ T2 = WideOf(1010)
                /\ out.Transmit = WideOf(1020)
                /\ receivedTime = WideOf(1040))
               => (out.tsrtt = WideOf(30) /\ out.delta = WideOf(5))

\* The example of the claim happened.
C10_Witness ==
    /\ out.printed
    /\ transmitTime = <<0, 1000>>
    /\ out.Receive = <<0, 1010>>
    /\ out.Transmit = <<0, 1020>>
    /\ receivedTime = <<0, 1040>>
    /\ out.tsrtt = <<0, 30>>
    /\ out.delta = <<0, 5>>

\* The failure the run ended with: the error doPing returned, or the decode
\* error it dropped.
FailureOf == IF ret # Nil THEN ret ELSE perr

\* C11: no error is silently swallowed: whenever the exchange fails (lookup
\* failure, no address, socket open failure, incomplete send, socket error,
\* timeout, parse failure, malformed body, unexpected reply type), the process
\* has printed a diagnostic for that failure by the time it exits.
C11_EveryFailureIsPrinted ==
    (pc \in Terminal /\ FailureOf # Nil) =>
        \E i \in DOMAIN stderr : stderr[i].kind = "error" /\ stderr[i].err = FailureOf

\* C12: when the capability check reports that raw ICMP sockets are not
\* permitted, or the program is not given exactly one destination argument,
\* the exchange is not attempted: no socket is opened and no request is sent.
C12_NoExchangeWithoutCapabilityOrArgument ==
    (~rawOK \/ nargs # 1) =>
        /\ sock = "none"
        /\ Count("ListenPacket") = 0
        /\ Count("WriteTo") = 0

\* The instant of the send-time sample (now of line 107), in milliseconds since
\* the epoch: the midnight reference plus the sample taken against it.
SendInstant == WAdd(today, transmitTime)

\* C13: both local clock samples of one exchange are taken against the same
\* midnight reference, the UTC midnight before the send, sampled once: the
\* receive sample is the wall clock at the read minus that midnight, so when
\* the wall clock has not gone backwards since the send, localReceiveTime >=
\* localSendTime, also across midnight.
C13_SameMidnight ==
    Succeeded("ReadFrom") # {} =>
        /\ \E w \in WallStarts : today = UnixMs([day |-> w.day, ms |-> 0])
        /\ WLeq(transmitTime, WideOf(MsPerDay - 1))
        /\ receivedTime = WSub(UnixMs(wall), today)
        /\ WLeq(SendInstant, UnixMs(wall)) => WLeq(transmitTime, receivedTime)

\* An exchange sent just before UTC midnight and answered just after it, the
\* wall clock running on: the receive sample is above 86,400,000.
C13_Witness ==
    /\ Succeeded("ReadFrom") # {}
    /\ \E w \in WallStarts : today = UnixMs([day |-> w.day, ms |-> 0]) /\ wall.day = w.day + 1
    /\ WLeq(WideOf(MsPerDay), receivedTime)
    /\ WLeq(receivedTime, WideOf(MsPerDay + ReadTimeoutMs))
    /\ WLeq(transmitTime, receivedTime)

\* The big-endian 32-bit number in the four bytes of b from position at.
WireU32(b, at) == <<b[at] * TwoTo8 + b[at + 1], b[at + 2] * TwoTo8 + b[at + 3]>>

\* The big-endian 16-bit number in the two bytes of b from position at.
WireU16(b, at) == b[at] * TwoTo8 + b[at + 1]

\* C14: the one outgoing message has ICMP type Timestamp (13) and code 0; its
\* body carries the local send-time sample as originateTimestamp, the T1 that
\* the RTT and delta printed later are computed from, receiveTimestamp = 0 and
\* transmitTimestamp = 0, and an identifier within 16 bits.
C14_Request ==
    Count("WriteTo") > 0 =>
        /\ Count("WriteTo") = 1
        /\ Len(wb) = icmpHeaderLen + marshalledTimestampLen
        /\ \A i \in DOMAIN wb : wb[i] \in 0 .. (TwoTo8 - 1)
        /\ wb[1] = ICMPTypeTimestamp
        /\ wb[2] = 0
        /\ WireU16(wb, icmpHeaderLen + 1) = pid % TwoTo16
        /\ WireU32(wb, icmpHeaderLen + 5) = transmitTime
        /\ WireU32(wb, icmpHeaderLen + 9) = <<0, 0>>
        /\ WireU32(wb, icmpHeaderLen + 13) = <<0, 0>>
        /\ out.printed =>
              LET T1 == WireU32(wb, icmpHeaderLen + 5) IN
                /\ out.tsrtt = WAbsOf(WAdd(WSub(out.Receive, T1),
                                           WSub(receivedTime, out.Transmit)))
                /\ out.delta = WSub(WAdd(WQuo2(out.tsrtt), T1), out.Receive)

\* A request written by the process 70000 just before midnight: the identifier
\* on the wire is 70000 - 65536 and the originateTimestamp is 86,399,990.
C14_Witness ==
    /\ Succeeded("WriteTo") # {}
    /\ pid = 70000
    /\ WireU16(wb, icmpHeaderLen + 1) = 4464
    /\ transmitTime = WideOf(86399990)
    /\ WireU32(wb, icmpHeaderLen + 5) = transmitTime
    /\ out.printed

\* C15: Marshal lays the fields out big-endian at fixed offsets: bytes 0-1 the
\* identifier mod 2^16, bytes 2-3 the sequence mod 2^16, bytes 4-7, 8-11 and
\* 12-15 the originate, receive and transmit timestamps; an identifier or a
\* sequence outside 16 bits is truncated, not rejected; ParseTimestamp reads
\* every field from the same offsets in the same byte order, so that
\* Marshal(ParseTimestamp(b)) = b for every 16-byte b.
C15_Layout ==
    /\ cpc = "marshalled" =>
          /\ cerr = Nil
          /\ \A i \in DOMAIN cbuf : cbuf[i] \in 0 .. (TwoTo8 - 1)
          /\ WireU16(cbuf, 1) = cmsg.ID % TwoTo16
          /\ WireU16(cbuf, 3) = cmsg.Seq % TwoTo16
          /\ WireU32(cbuf, 5) = cmsg.OriginTimestamp
          /\ WireU32(cbuf, 9) = cmsg.ReceiveTimestamp
          /\ WireU32(cbuf, 13) = cmsg.TransmitTimestamp
    /\ cpc = "parsed" =>
          /\ cmsg.ID = WireU16(cbuf, 1)
          /\ cmsg.Seq = WireU16(cbuf, 3)
          /\ cmsg.OriginTimestamp = WireU32(cbuf, 5)
          /\ cmsg.ReceiveTimestamp = WireU32(cbuf, 9)
          /\ cmsg.TransmitTimestamp = WireU32(cbuf, 13)
    /\ (cin.kind = "bytes" /\ Len(cin.b) = 16 /\ cpc = "marshalled") => cbuf = cin.b

\* Sixteen bytes, 0x01 at offset 4 and 0xff everywhere else, decoded and encoded
\* again: the originateTimestamp read was 0x01ffffff and the bytes came back.
C15_Witness ==
    /\ cin.kind = "bytes"
    /\ Len(cin.b) = 16
    /\ cin.b[5] = 1
    /\ cin.b[6] = 255
    /\ cpc = "marshalled"
    /\ cmsg.OriginTimestamp = <<511, 65535>>
    /\ cmsg.ID = 65535
    /\ cbuf = cin.b

\* The terminal states of the exchange, told apart by what happened in the run.
RepliedValid ==
    /\ Succeeded("ReadFrom") # {}
    /\ rm.Type = ICMPTypeTimestampReply
    /\ ~ts.isNil
    /\ out.printed

RepliedInvalidType == ret.kind = "want echo reply"

TimedOut == ret.kind = "i/o timeout"

SendFailed == ret.kind \in {"write", "got; want"}

SocketOpenFailed == ret.kind = "listen"

OtherFailure ==
    \/ pc = "panicked"
    \/ ret.kind \in {"lookup", "no A or AAAA record", "neither UDPAddr nor IPAddr",
                     "set deadline", "read", "message too short"}

OutcomesHolding ==
    {o \in {"RepliedValid", "RepliedInvalidType", "TimedOut", "SendFailed",
            "SocketOpenFailed", "OtherFailure"} :
        CASE o = "RepliedValid" -> RepliedValid
          [] o = "RepliedInvalidType" -> RepliedInvalidType
          [] o = "TimedOut" -> TimedOut
          [] o = "SendFailed" -> SendFailed
          [] o = "SocketOpenFailed" -> SocketOpenFailed
          [] o = "OtherFailure" -> OtherFailure}

\* C16: every invocation of the exchange eventually reaches a terminal state,
\* the read deadline expiring when no datagram arrives; that state is exactly
\* one of RepliedValid, RepliedInvalidType, TimedOut, SendFailed,
\* SocketOpenFailed or another failure; no step leaves a terminal state; and
\* the exchange returns without an error only in RepliedValid.
C16_Terminates ==
    /\ (pc = "listen") ~> (pc \in Terminal)
    /\ [](pc \in Terminal => Cardinality(OutcomesHolding) = 1)
    /\ [][(pc \in Terminal) => UNCHANGED vars]_vars
    /\ []((pc = "done" /\ ret = Nil) => RepliedValid)

\* An exchange that ended in RepliedValid, socket closed, after one read.
C16_Witness ==
    /\ pc = "done"
    /\ OutcomesHolding = {"RepliedValid"}
    /\ ret = Nil
    /\ sock = "closed"
    /\ Count("ReadFrom") = 1

\* The places of the IPv4 entries in the list the resolver returned.
V4Positions == {i \in DOMAIN ips : ips[i].fam = "v4"}

\* The error getAddr returned.
getAddrErr == calls[CHOOSE i \in DOMAIN calls : calls[i].op = "getAddr"].err

\* C17: getAddr returns the first IPv4 address in the order the resolver lists
\* them, skipping the entries before it that are not IPv4; it fails with the
\* no-address error exactly when the resolver succeeds and lists no IPv4
\* entry; a failure of the resolver itself is passed through as it is, an
\* error other than the no-address error.
C17_Resolve ==
    Count("getAddr") > 0 =>
        /\ (resolverErr = Nil /\ V4Positions # {}) =>
              /\ getAddrErr = Nil
              /\ \E i \in V4Positions :
                    /\ \A j \in V4Positions : i <= j
                    /\ dst.ip = ips[i].a
        /\ getAddrErr.kind = "no A or AAAA record" <=> (resolverErr = Nil /\ V4Positions = {})
        /\ resolverErr # Nil =>
              /\ getAddrErr = resolverErr
              /\ getAddrErr.kind # "no A or AAAA record"
        /\ getAddrErr # Nil => (pc = "done" /\ ret = getAddrErr /\ dst = NoAddr)

\* The resolver listed an IPv6 address and then an IPv4 address: the second
\* entry is the destination.
C17_Witness ==
    /\ Succeeded("getAddr") # {}
    /\ Len(ips) = 2
    /\ ips[1].fam = "v6"
    /\ ips[2].fam = "v4"
    /\ dst.ip = ips[2].a
    /\ dst.ip # ips[1].a

\* C18: only the first datagram read is considered, and a Timestamp Reply is
\* accepted without its identifier, sequence number, originateTimestamp or
\* sender being compared with the request: a Timestamp Reply with a 16-byte
\* body from any peer ends the exchange in RepliedValid, and the receive and
\* transmit timestamps it carries are the T2 and T3 of the RTT and the delta.
C18_ReplyNotMatched ==
    /\ Count("ReadFrom") <= 1
    /\ (/\ pc \in Terminal
        /\ rm.Type = ICMPTypeTimestampReply
        /\ Len(rm.Body) = marshalledTimestampLen) =>
          LET T2 == WireU32(rb, icmpHeaderLen + 9)
              T3 == WireU32(rb, icmpHeaderLen + 13)
          IN  /\ pc = "done"
              /\ ret = Nil
              /\ out.printed
              /\ out.Receive = T2
              /\ out.Transmit = T3
              /\ out.tsrtt = WAbsOf(WAdd(WSub(T2, transmitTime), WSub(receivedTime, T3)))
              /\ out.delta = WSub(WAdd(WQuo2(out.tsrtt), transmitTime), T2)

\* A reply from a host that was not addressed, with another identifier, another
\* sequence number and another originateTimestamp than the request, accepted.
C18_Witness ==
    /\ pc = "done"
    /\ ret = Nil
    /\ out.printed
    /\ peer # dst.ip
    /\ WireU16(rb, icmpHeaderLen + 1) # WireU16(wb, icmpHeaderLen + 1)
    /\ WireU16(rb, icmpHeaderLen + 3) # WireU16(wb, icmpHeaderLen + 3)
    /\ WireU32(rb, icmpHeaderLen + 5) # WireU32(wb, icmpHeaderLen + 5)
    /\ out.Receive = <<0, 1010>>
    /\ out.Transmit = <<0, 1020>>

====
